---------------------------- MODULE Spec2Model ----------------------------
(***************************************************************************)
(* A model of unigram_pytorch_2.py: the one-hot encoder, the logit/sigmoid *)
(* parameterisation of the unigram distribution, the training loop around  *)
(* the Adam optimizer and the reporting that follows it.                   *)
(*                                                                         *)
(* Numbers.  Floating-point values are modelled in fixed point:            *)
(*   - a float32 value (parameters, gradients, log-probabilities, losses)  *)
(*     is an integer count of 1/Scale;                                     *)
(*   - a float64 value (numpy's logit) is an integer count of 1/Scale64;   *)
(*   - the output of the sigmoid is an integer count of 1/ProbScale;       *)
(*   - a quotient (normalize, the empirical frequencies) is the fraction   *)
(*     <<num, den>> in lowest terms, so equal quotients are equal values;  *)
(*   - the IEEE special values are kept: a float is a record               *)
(*     [kind, val] with kind in {"fin", "inf", "ninf", "nan"}.             *)
(* Indices are 1-based: Python's index k is k + 1 here.                    *)
(***************************************************************************)
EXTENDS Integers, Sequences, FiniteSets, TLC

(***************************************************************************)
(* Bounds of the model.                                                    *)
(***************************************************************************)
MaxLen == 2          \* longest enumerated corpus (characters)
MaxIterations == 2   \* largest enumerated iteration count
MaxVocab == 3        \* largest enumerated vocabulary of the direct calls

(***************************************************************************)
(* Resolutions of the fixed-point numbers.                                 *)
(***************************************************************************)
Scale == 1000
Scale64 == 10000
ProbScale == 10000

(***************************************************************************)
(* Floats with the IEEE special values.                                    *)
(***************************************************************************)
Fin(n) == [kind |-> "fin", val |-> n]
PInf == [kind |-> "inf", val |-> 0]
NInf == [kind |-> "ninf", val |-> 0]
NaN == [kind |-> "nan", val |-> 0]

FNeg(a) ==
    CASE a.kind = "fin" -> Fin(0 - a.val)
      [] a.kind = "inf" -> NInf
      [] a.kind = "ninf" -> PInf
      [] OTHER -> NaN

FAdd(a, b) ==
    CASE a.kind = "nan" \/ b.kind = "nan" -> NaN
      [] a.kind = "fin" /\ b.kind = "fin" -> Fin(a.val + b.val)
      [] a.kind = "fin" -> b
      [] b.kind = "fin" -> a
      [] a.kind = b.kind -> a
      [] OTHER -> NaN

FSub(a, b) == FAdd(a, FNeg(b))

\* the product of a count (a non-negative whole number) with a float
FScale(c, a) ==
    CASE a.kind = "nan" -> NaN
      [] a.kind = "fin" -> Fin(c * a.val)
      [] c = 0 -> NaN
      [] OTHER -> a

\* a >= b as IEEE compares: false when either is NaN
FGeq(a, b) ==
    CASE a.kind = "nan" \/ b.kind = "nan" -> FALSE
      [] a.kind = "inf" -> TRUE
      [] b.kind = "ninf" -> TRUE
      [] a.kind = "fin" /\ b.kind = "fin" -> a.val >= b.val
      [] OTHER -> FALSE

(***************************************************************************)
(* Integer helpers.                                                        *)
(***************************************************************************)
\* a / b rounded to the nearest integer, b > 0
RoundDiv(a, b) == (2 * a + b) \div (2 * b)

\* floor(a * b / c) without forming a * b; b >= 0, c > 0
MulDiv(a, b, c) == (a \div c) * b + ((a % c) * b) \div c

RECURSIVE GCD(_, _)
GCD(a, b) == IF b = 0 THEN a ELSE GCD(b, a % b)

\* the fraction num/den in lowest terms; 0/0 is kept as <<0, 0>>
Reduce(num, den) ==
    LET g == GCD(num, den)
    IN  IF g = 0 THEN <<0, 0>> ELSE <<num \div g, den \div g>>

RECURSIVE ISqrtBits(_, _, _)
\* the largest r with r * r <= n, r built from the bit b downwards
ISqrtBits(n, r, b) ==
    IF b = 0 THEN r
    ELSE IF (r + b) <= n \div (r + b) THEN ISqrtBits(n, r + b, b \div 2)
         ELSE ISqrtBits(n, r, b \div 2)

ISqrt(n) == ISqrtBits(n, 0, 32768)

RECURSIVE Stored(_, _, _)
\* the entries lo..hi of f as a stored tuple, each computed once
Stored(f, lo, hi) ==
    IF lo > hi THEN << >>
    ELSE IF lo = hi THEN << f[lo] >>
    ELSE LET mid == (lo + hi) \div 2
         IN  Stored(f, lo, mid) \o Stored(f, mid + 1, hi)

\* the vector f[1], ..., f[n]
Vector(f, n) == Stored(f, 1, n)

RECURSIVE SumRange(_, _, _)
\* f[lo] + ... + f[hi]
SumRange(f, lo, hi) ==
    IF lo > hi THEN 0
    ELSE IF lo = hi THEN f[lo]
    ELSE LET mid == (lo + hi) \div 2
         IN  SumRange(f, lo, mid) + SumRange(f, mid + 1, hi)

\* f[1] + ... + f[n]
SumTo(f, n) == SumRange(f, 1, n)


(***************************************************************************)
(* The elementary functions, in fixed point.                               *)
(***************************************************************************)
RECURSIVE Log2Floor(_)
Log2Floor(n) == IF n < 2 THEN 0 ELSE 1 + Log2Floor(n \div 2)

RECURSIVE Pow2(_)
Pow2(k) == IF k = 0 THEN 1 ELSE 2 * Pow2(k - 1)

\* ln(n) in units of 1/Scale64, n >= 1: n = 2^k * m with 1 <= m < 2,
\* ln(m) = 2 * atanh(z), z = (m - 1) / (m + 1), by its series to z^9
LnInt(n) ==
    LET k == Log2Floor(n)
        z == ((n - Pow2(k)) * Scale64) \div (n + Pow2(k))
        z2 == (z * z) \div Scale64
        z3 == (z * z2) \div Scale64
        z5 == (z3 * z2) \div Scale64
        z7 == (z5 * z2) \div Scale64
        z9 == (z7 * z2) \div Scale64
    IN  (k * 693147) \div 100
          + 2 * (z + z3 \div 3 + z5 \div 5 + z7 \div 7 + z9 \div 9)

\* the natural logarithm of the fraction q = <<num, den>> >= 0, in units of
\* 1/unit (unit divides Scale64): log(0) is -inf and log(0/0) is NaN
LogFraction(q, unit) ==
    CASE q[2] = 0 -> NaN
      [] q[1] = 0 -> NInf
      [] OTHER -> Fin(RoundDiv(LnInt(q[1]) - LnInt(q[2]), Scale64 \div unit))

RECURSIVE ExpTerms(_, _, _)
\* the terms n, n + 1, ..., 10 of the series of e^(f / Scale), where term
\* is term n - 1, in units of 1/ProbScale
ExpTerms(f, term, n) ==
    IF n > 10 THEN 0
    ELSE LET next == (term * f) \div (Scale * n)
         IN  next + ExpTerms(f, next, n + 1)

RECURSIVE ExpWhole(_)
\* e^k in units of 1/ProbScale, k a whole number of at most 10
ExpWhole(k) ==
    IF k = 0 THEN ProbScale ELSE MulDiv(ExpWhole(k - 1), 27183, 10000)

\* e^(x / Scale) in units of 1/ProbScale, 0 <= x <= 10 * Scale
ExpFixed(x) ==
    LET f == x % Scale
    IN  MulDiv(ExpWhole(x \div Scale), ProbScale + ExpTerms(f, ProbScale, 1),
               ProbScale)

\* 1 / (1 + e^(x / Scale)) in units of 1/ProbScale, x >= 0; below the
\* resolution from x = 10 * Scale on
SigmoidOfNegative(x) ==
    IF x >= 10 * Scale THEN 0
    ELSE RoundDiv(ProbScale * ProbScale, ProbScale + ExpFixed(x))

\* torch.sigmoid of one float32 entry, in units of 1/ProbScale
sigmoid(a) ==
    CASE a.kind = "inf" -> ProbScale
      [] a.kind = "ninf" -> 0
      [] a.kind = "fin" /\ a.val < 0 -> SigmoidOfNegative(0 - a.val)
      [] a.kind = "fin" -> ProbScale - SigmoidOfNegative(a.val)
      [] OTHER -> 0

(***************************************************************************)
(* Characters and the vocabulary.                                          *)
(***************************************************************************)
Letters ==
    << "a", "b", "c", "d", "e", "f", "g", "h", "i", "j", "k", "l", "m",
       "n", "o", "p", "q", "r", "s", "t", "u", "v", "w", "x", "y", "z" >>

UpperLetters ==
    << "A", "B", "C", "D", "E", "F", "G", "H", "I", "J", "K", "L", "M",
       "N", "O", "P", "Q", "R", "S", "T", "U", "V", "W", "X", "Y", "Z" >>

\* Python's None, the vocabulary's last entry: no character equals it
None == "None"

\* the vocabulary of the program: 'a'..'z', ' ' and None
vocabulary == Letters \o << " ", None >>

\* str.lower on one character
LowerChar(c) ==
    IF \E k \in 1..Len(UpperLetters) : UpperLetters[k] = c
    THEN Letters[CHOOSE k \in 1..Len(UpperLetters) : UpperLetters[k] = c]
    ELSE c

\* str.lower on a text
lower(str) == Vector([k \in 1..Len(str) |-> LowerChar(str[k])], Len(str))

(***************************************************************************)
(* onehot: the V-by-1 array of the token's one-hot encoding.               *)
(***************************************************************************)
\* list.index: the first position holding the token; 0 stands for the
\* ValueError raised when there is none
ListIndex(vocab, token) ==
    IF \E k \in 1..Len(vocab) : vocab[k] = token
    THEN CHOOSE k \in 1..Len(vocab) :
             /\ vocab[k] = token
             /\ \A j \in 1..(k - 1) : vocab[j] # token
    ELSE 0

\* onehot with the 1 always in the last row
onehot_last(vocab, token) ==
    Vector([r \in 1..Len(vocab) |-> << IF r = Len(vocab) THEN 1 ELSE 0 >>],
           Len(vocab))

\* onehot sending a token the vocabulary lacks to the first row
onehot_first(vocab, token) ==
    LET found == ListIndex(vocab, token)
        idx == IF found = 0 THEN 1 ELSE found
    IN  Vector([r \in 1..Len(vocab) |-> << IF r = idx THEN 1 ELSE 0 >>],
               Len(vocab))

\* onehot without the fallback: no entry set for a token it lacks
onehot_no_fallback(vocab, token) ==
    LET idx == ListIndex(vocab, token)
    IN  Vector([r \in 1..Len(vocab) |-> << IF r = idx THEN 1 ELSE 0 >>],
               Len(vocab))

onehot(vocab, token) ==
    LET found == ListIndex(vocab, token)
        idx == IF found = 0 THEN Len(vocab) ELSE found
    IN  Vector([r \in 1..Len(vocab) |-> << IF r = idx THEN 1 ELSE 0 >>],
               Len(vocab))

RECURSIVE RowOf(_, _, _, _)
\* row r of the blocks lo..hi laid side by side
RowOf(blocks, r, lo, hi) ==
    IF lo = hi THEN blocks[lo][r]
    ELSE LET mid == (lo + hi) \div 2
         IN  RowOf(blocks, r, lo, mid) \o RowOf(blocks, r, mid + 1, hi)

\* np.hstack of a non-empty list of arrays with the same number of rows
hstack(blocks) ==
    Vector([r \in 1..Len(blocks[1]) |-> RowOf(blocks, r, 1, Len(blocks))],
           Len(blocks[1]))

\* torch.sum(x, 1, keepdim=True): the sum of each row
RowSums(m) == Vector([r \in 1..Len(m) |-> SumTo(m[r], Len(m[r]))], Len(m))

(***************************************************************************)
(* logit, normalize and the Unigram model.                                 *)
(***************************************************************************)
\* numpy's logit of the fraction q, a float64
logit(q) ==
    FSub(LogFraction(q, Scale64),
         LogFraction(Reduce(q[2] - q[1], q[2]), Scale64))

\* astype("float32") of a float64
AsFloat32(a) ==
    IF a.kind = "fin" THEN Fin(RoundDiv(a.val, Scale64 \div Scale)) ELSE a

\* normalize without the division by the sum
normalize_unscaled(xs) ==
    Vector([v \in 1..Len(xs) |-> Reduce(xs[v], ProbScale)], Len(xs))

\* x / torch.sum(x), entry by entry
normalize(xs) ==
    LET total == SumTo(xs, Len(xs))
    IN  Vector([v \in 1..Len(xs) |-> Reduce(xs[v], total)], Len(xs))

\* Unigram.__init__: the initial parameter vector s
UnigramInit(n) == Vector([v \in 1..n |-> AsFloat32(logit(Reduce(1, n)))], n)

\* the distribution p the forward pass derives from s
Distribution(sv) ==
    normalize(Vector([v \in 1..Len(sv) |-> sigmoid(sv[v])], Len(sv)))

RECURSIVE DotLog(_, _, _, _)
\* counts.T @ logs over the entries lo..hi
DotLog(counts, logs, lo, hi) ==
    IF lo > hi THEN Fin(0)
    ELSE IF lo = hi THEN FScale(counts[lo], logs[lo])
    ELSE LET mid == (lo + hi) \div 2
         IN  FAdd(DotLog(counts, logs, lo, mid),
                  DotLog(counts, logs, mid + 1, hi))

\* torch.sum(input, 1, keepdim=True).T @ torch.log(q)
LogLikelihood(input, q) ==
    DotLog(RowSums(input), [v \in 1..Len(q) |-> LogFraction(q[v], Scale)],
           1, Len(q))

\* Unigram.forward: the log-likelihood of the input and the distribution
forward(sv, input) ==
    LET q == Distribution(sv)
    IN  << LogLikelihood(input, q), q >>

(***************************************************************************)
(* Autograd and the optimizer.                                             *)
(***************************************************************************)
\* d loss / d s for loss = -forward(s, input)[1], entry v:
\*   (1 - sigmoid(s_v)) * (T * p_v - count_v),  T the number of columns
Gradient(sv, input) ==
    LET counts == RowSums(input)
        T == SumTo(counts, Len(counts))
        q == Distribution(sv)
    IN  Vector([v \in 1..Len(sv) |->
                   IF q[v][2] = 0 THEN 0
                   ELSE LET excess ==
                                MulDiv(T * q[v][1] - counts[v] * q[v][2],
                                       Scale, q[v][2])
                        IN  RoundDiv((ProbScale - sigmoid(sv[v])) * excess,
                                     ProbScale)],
               Len(sv))

learning_rate == 20   \* 0.02 in units of 1/Scale

RECURSIVE Beta1Power(_)
\* 0.9^t in thousandths
Beta1Power(t) == IF t = 0 THEN 1000 ELSE RoundDiv(Beta1Power(t - 1) * 9, 10)

RECURSIVE Beta2Power(_)
\* 0.999^t in millionths
Beta2Power(t) ==
    IF t = 0 THEN 1000000 ELSE RoundDiv(Beta2Power(t - 1) * 999, 1000)

\* torch.optim.Adam with its defaults (betas 0.9 and 0.999, eps 1e-8):
\* exp_avg is kept in units of 1/Scale64, exp_avg_sq in units of 1e-9
AdamInit(n) ==
    [step |-> 0, exp_avg |-> Vector([v \in 1..n |-> 0], n),
     exp_avg_sq |-> Vector([v \in 1..n |-> 0], n)]

\* the moments after one more gradient g
AdamMoments(st, g) ==
    [step |-> st.step + 1,
     exp_avg |->
         Vector([v \in 1..Len(g) |->
                    RoundDiv(9 * st.exp_avg[v]
                               + (Scale64 \div Scale) * g[v], 10)], Len(g)),
     exp_avg_sq |->
         Vector([v \in 1..Len(g) |->
                    st.exp_avg_sq[v] - RoundDiv(st.exp_avg_sq[v], 1000)
                      + g[v] * g[v]], Len(g))]

\* the update of entry v from the moments st already advanced; eps is
\* below the resolution and counts only where sqrt(v_hat) is 0 at it
AdamDelta(st, v) ==
    LET m_hat == RoundDiv(st.exp_avg[v] * 100, 1000 - Beta1Power(st.step))
        v_hat == MulDiv(st.exp_avg_sq[v], 1000,
                        1000000 - Beta2Power(st.step))
        root == ISqrt(v_hat)
        denom == IF root = 0 THEN 1 ELSE root
    IN  RoundDiv(learning_rate * m_hat, denom)

\* optimizer.step(): the parameters after the step
AdamStep(sv, st) ==
    Vector([v \in 1..Len(sv) |-> FSub(sv[v], Fin(AdamDelta(st, v)))],
           Len(sv))

(***************************************************************************)
(* The program: gradient_descent_example.                                  *)
(***************************************************************************)
VARIABLES
    pc,              \* the statement to run next
    raw,             \* the corpus file as the provider returns it
    num_iterations,  \* the iteration count (the program sets 100)
    text,            \* the lower-cased corpus
    tokens,          \* its characters
    x,               \* the V-by-T tensor of one-hot columns
    s,               \* model.s, the parameters
    grad,            \* model.s.grad, the gradient accumulator
    optimizer,       \* Adam's state
    it,              \* the next value of range(num_iterations)
    i,               \* the loop variable
    p_pred,          \* the log-likelihood the last forward pass returned
    p,               \* the distribution the last forward pass returned
    loss,
    list_loss,       \* the recorded iteration indices
    list_items,      \* the recorded loss values
    true_p,          \* the empirical frequencies
    min,             \* the closed-form minimal loss
    graph1, graph2, graph3,   \* what each figure was drawn from
    files,           \* the image files written, in order
    s_read,          \* history: the parameters the last forward pass read
    s_history,       \* history: the parameters before each step, in order
    u_pc, u_vocabulary, u_token, u_embedding, u_s, u_out  \* direct calls

progVars ==
    << pc, raw, num_iterations, text, tokens, x, s, grad, optimizer, it, i,
       p_pred, p, loss, list_loss, list_items, true_p, min, graph1, graph2,
       graph3, files, s_read, s_history >>

unitVars == << u_pc, u_vocabulary, u_token, u_embedding, u_s, u_out >>

vars == << progVars, unitVars >>

\* a local name of the function: unbound, or bound to a value
Unbound == << >>
Bound(v) == << v >>

\* the characters the enumerated corpora are written in
RawChars == { "a", "b", " ", "!", "A" }

\* the corpus of the specification's end-to-end scenario
ExampleCorpus == << "a", "a", "b", " " >>

\* corpora in which every vocabulary symbol occurs ("!" falls to None)
Pangram == Letters \o << " ", "!" >>
PangramTwice == Pangram \o << "e", "E" >>

Corpora ==
    UNION { [1..n -> RawChars] : n \in 1..MaxLen }
      \cup { ExampleCorpus, Pangram, PangramTwice }

V == Len(vocabulary)

ProgramIdle ==
    /\ pc = "off" /\ raw = << >> /\ num_iterations = 0
    /\ text = << >> /\ tokens = << >> /\ x = << >>
    /\ s = << >> /\ grad = << >> /\ optimizer = AdamInit(0)
    /\ it = 0 /\ i = Unbound /\ p_pred = Unbound /\ p = Unbound
    /\ loss = Unbound /\ list_loss = << >> /\ list_items = << >>
    /\ true_p = Unbound /\ min = Unbound
    /\ graph1 = Unbound /\ graph2 = Unbound /\ graph3 = Unbound
    /\ files = << >> /\ s_read = Unbound /\ s_history = << >>

UnitIdle ==
    /\ u_pc = "off" /\ u_vocabulary = << >> /\ u_token = None
    /\ u_embedding = Unbound /\ u_s = Unbound /\ u_out = Unbound

Init ==
    /\ pc = "load"
    /\ raw \in Corpora
    /\ num_iterations \in 0..MaxIterations
    /\ text = << >> /\ tokens = << >> /\ x = << >>
    /\ s = << >> /\ grad = << >> /\ optimizer = AdamInit(0)
    /\ it = 0 /\ i = Unbound /\ p_pred = Unbound /\ p = Unbound
    /\ loss = Unbound /\ list_loss = << >> /\ list_items = << >>
    /\ true_p = Unbound /\ min = Unbound
    /\ graph1 = Unbound /\ graph2 = Unbound /\ graph3 = Unbound
    /\ files = << >> /\ s_read = Unbound /\ s_history = << >>
    /\ UnitIdle

\* text = nltk.corpus.gutenberg.raw(...).lower()
LoadCorpus ==
    /\ pc = "load"
    /\ text' = lower(raw)
    /\ pc' = "tokenize"
    /\ UNCHANGED << raw, num_iterations, tokens, x, s, grad, optimizer, it,
                    i, p_pred, p, loss, list_loss, list_items, true_p, min,
                    graph1, graph2, graph3, files, s_read, s_history >>
    /\ UNCHANGED unitVars

\* tokens = [char for char in text]
Tokenize ==
    /\ pc = "tokenize"
    /\ tokens' = Vector([k \in 1..Len(text) |-> text[k]], Len(text))
    /\ pc' = "encode"
    /\ UNCHANGED << raw, num_iterations, text, x, s, grad, optimizer, it, i,
                    p_pred, p, loss, list_loss, list_items, true_p, min,
                    graph1, graph2, graph3, files, s_read, s_history >>
    /\ UNCHANGED unitVars

\* encodings = np.hstack([onehot(...) for token in tokens]); x = tensor(...)
Encode ==
    /\ pc = "encode"
    /\ x' = hstack([k \in 1..Len(tokens) |-> onehot(vocabulary, tokens[k])])
    /\ pc' = "model"
    /\ UNCHANGED << raw, num_iterations, text, tokens, s, grad, optimizer,
                    it, i, p_pred, p, loss, list_loss, list_items, true_p,
                    min, graph1, graph2, graph3, files, s_read,
                    s_history >>
    /\ UNCHANGED unitVars

\* model = Unigram(len(vocabulary)); optimizer = Adam(...); the two lists
BuildModel ==
    /\ pc = "model"
    /\ s' = UnigramInit(V)
    /\ grad' = Vector([v \in 1..V |-> 0], V)
    /\ optimizer' = AdamInit(V)
    /\ list_loss' = << >>
    /\ list_items' = << >>
    /\ it' = 0
    /\ pc' = "for"
    /\ UNCHANGED << raw, num_iterations, text, tokens, x, i, p_pred, p, loss,
                    true_p, min, graph1, graph2, graph3, files, s_read,
                    s_history >>
    /\ UNCHANGED unitVars

\* the loop test with an early stop once a loss is recorded
LoopNext_early_stop ==
    it < num_iterations /\ list_items = << >>

\* for i in range(num_iterations): the next index, or the end of the loop
LoopNext ==
    it < num_iterations

LoopTest ==
    /\ pc = "for"
    /\ IF LoopNext
       THEN /\ i' = Bound(it)
            /\ it' = it + 1
            /\ pc' = "forward"
       ELSE /\ pc' = "stats"
            /\ UNCHANGED << i, it >>
    /\ UNCHANGED << raw, num_iterations, text, tokens, x, s, grad, optimizer,
                    p_pred, p, loss, list_loss, list_items, true_p, min,
                    graph1, graph2, graph3, files, s_read, s_history >>
    /\ UNCHANGED unitVars

\* p_pred, p = model(x)
ForwardPass ==
    /\ pc = "forward"
    /\ LET out == forward(s, x)
       IN  /\ p_pred' = Bound(out[1])
           /\ p' = Bound(out[2])
    /\ s_read' = Bound(s)
    /\ pc' = "loss"
    /\ UNCHANGED << raw, num_iterations, text, tokens, x, s, grad, optimizer,
                    it, i, loss, list_loss, list_items, true_p, min, graph1,
                    graph2, graph3, files, s_history >>
    /\ UNCHANGED unitVars

\* loss = -p_pred
ComputeLoss ==
    /\ pc = "loss"
    /\ loss' = Bound(FNeg(p_pred[1]))
    /\ pc' = "backward"
    /\ UNCHANGED << raw, num_iterations, text, tokens, x, s, grad, optimizer,
                    it, i, p_pred, p, list_loss, list_items, true_p, min,
                    graph1, graph2, graph3, files, s_read, s_history >>
    /\ UNCHANGED unitVars

\* s.grad after one more gradient g is added to it
Accumulate(acc, g) == Vector([v \in 1..Len(acc) |-> acc[v] + g[v]], Len(acc))

\* loss.backward(retain_graph=True): the gradient is added to s.grad
Backward ==
    /\ pc = "backward"
    /\ grad' = Accumulate(grad, Gradient(s, x))
    /\ pc' = "step"
    /\ UNCHANGED << raw, num_iterations, text, tokens, x, s, optimizer, it,
                    i, p_pred, p, loss, list_loss, list_items, true_p, min,
                    graph1, graph2, graph3, files, s_read, s_history >>
    /\ UNCHANGED unitVars

\* optimizer.step()
OptimizerStep ==
    /\ pc = "step"
    /\ optimizer' = AdamMoments(optimizer, grad)
    /\ s' = AdamStep(s, optimizer')
    /\ s_history' = Append(s_history, s)
    /\ pc' = "zero_grad"
    /\ UNCHANGED << raw, num_iterations, text, tokens, x, grad, it, i,
                    p_pred, p, loss, list_loss, list_items, true_p, min,
                    graph1, graph2, graph3, files, s_read >>
    /\ UNCHANGED unitVars

\* zero_grad left out: the accumulator keeps its gradient
ClearedGrad_kept(g) == g

\* the accumulator after optimizer.zero_grad(): nothing accumulated
ClearedGrad(g) == Vector([v \in 1..Len(g) |-> 0], Len(g))

ZeroGrad ==
    /\ pc = "zero_grad"
    /\ grad' = ClearedGrad(grad)
    /\ pc' = "record"
    /\ UNCHANGED << raw, num_iterations, text, tokens, x, s, optimizer, it,
                    i, p_pred, p, loss, list_loss, list_items, true_p, min,
                    graph1, graph2, graph3, files, s_read, s_history >>
    /\ UNCHANGED unitVars

\* list_loss.append(i); list_items.append(loss.item())
Record ==
    /\ pc = "record"
    /\ list_loss' = Append(list_loss, i[1])
    /\ list_items' = Append(list_items, loss[1])
    /\ pc' = "for"
    /\ UNCHANGED << raw, num_iterations, text, tokens, x, s, grad, optimizer,
                    it, i, p_pred, p, loss, true_p, min, graph1, graph2,
                    graph3, files, s_read, s_history >>
    /\ UNCHANGED unitVars

(***************************************************************************)
(* Reporting.                                                              *)
(***************************************************************************)
\* the frequencies divided by the number of rows instead of len(text)
EmpiricalFrequencies_by_rows(input, n) ==
    LET counts == RowSums(input)
    IN  Vector([r \in 1..Len(input) |-> Reduce(counts[r], Len(input))],
               Len(input))

\* torch.sum(x, 1, keepdim=True) / len(text)
EmpiricalFrequencies(input, n) ==
    LET counts == RowSums(input)
    IN  Vector([r \in 1..Len(input) |-> Reduce(counts[r], n)], Len(input))

\* -(torch.sum(x, 1, keepdim=True)).T @ torch.log(true_p)
MinimalLoss(input, freq) == FNeg(LogLikelihood(input, freq))

\* true_p = ...; mm = ...; min = mm.item()
Stats ==
    /\ pc = "stats"
    /\ true_p' = Bound(EmpiricalFrequencies(x, Len(text)))
    /\ min' = Bound(MinimalLoss(x, true_p'[1]))
    /\ pc' = "graph1"
    /\ UNCHANGED << raw, num_iterations, text, tokens, x, s, grad, optimizer,
                    it, i, p_pred, p, loss, list_loss, list_items, graph1,
                    graph2, graph3, files, s_read, s_history >>
    /\ UNCHANGED unitVars

\* graph 1: the loss curve and the line at the minimal loss
Graph1 ==
    /\ pc = "graph1"
    /\ graph1' = Bound([xs |-> list_loss, ys |-> list_items, line |-> min[1]])
    /\ files' = Append(files, "g_1_100.png")
    /\ pc' = "graph2"
    /\ UNCHANGED << raw, num_iterations, text, tokens, x, s, grad, optimizer,
                    it, i, p_pred, p, loss, list_loss, list_items, true_p,
                    min, graph2, graph3, s_read, s_history >>
    /\ UNCHANGED unitVars

\* reporting reading the distribution off the trained model instead
ReportedDistribution_of_model ==
    IF p = Unbound THEN Unbound ELSE Bound(Distribution(s))

\* the distribution reporting draws as the learned one: the local name p
ReportedDistribution == p

\* graph 2: the empirical frequencies and p; p is a local name bound only
\* by the loop body, and reading it unbound raises NameError
Graph2 ==
    /\ pc = "graph2"
    /\ IF ReportedDistribution = Unbound
       THEN /\ pc' = "NameError"
            /\ UNCHANGED << graph2, files >>
       ELSE /\ graph2' = Bound([empirical |-> true_p[1],
                                learned |-> ReportedDistribution[1]])
            /\ files' = Append(files, "g_2_100.png")
            /\ pc' = "graph3"
    /\ UNCHANGED << raw, num_iterations, text, tokens, x, s, grad, optimizer,
                    it, i, p_pred, p, loss, list_loss, list_items, true_p,
                    min, graph1, graph3, s_read, s_history >>
    /\ UNCHANGED unitVars

\* a - b for two fractions
FractionSub(a, b) == Reduce(a[1] * b[2] - b[1] * a[2], a[2] * b[2])

\* [x - y for x, y in zip(a, b)]
Differences(a, b) ==
    Vector([v \in 1..Len(a) |-> FractionSub(a[v], b[v])], Len(a))

\* graph 3: the differences of true_p and p
Graph3 ==
    /\ pc = "graph3"
    /\ graph3' = Bound(Differences(true_p[1], ReportedDistribution[1]))
    /\ files' = Append(files, "g_3_100.png")
    /\ pc' = "done"
    /\ UNCHANGED << raw, num_iterations, text, tokens, x, s, grad, optimizer,
                    it, i, p_pred, p, loss, list_loss, list_items, true_p,
                    min, graph1, graph2, s_read, s_history >>
    /\ UNCHANGED unitVars

Next ==
    \/ LoadCorpus \/ Tokenize \/ Encode \/ BuildModel
    \/ LoopTest \/ ForwardPass \/ ComputeLoss \/ Backward
    \/ OptimizerStep \/ ZeroGrad \/ Record
    \/ Stats \/ Graph1 \/ Graph2 \/ Graph3

Spec == Init /\ [][Next]_vars

(***************************************************************************)
(* Direct calls: onehot, Unigram and forward on enumerated inputs.         *)
(***************************************************************************)
UnitSymbols == { "a", "b", " ", None }
UnitTokens == UnitSymbols \cup { "!" }

\* the sequences of distinct symbols of 1 to MaxVocab entries, and the
\* vocabulary of the program
Vocabularies ==
    { voc \in UNION { [1..n -> UnitSymbols] : n \in 1..MaxVocab } :
        \A j, k \in 1..Len(voc) : j # k => voc[j] # voc[k] }
      \cup { vocabulary }

UnitInit ==
    /\ ProgramIdle
    /\ u_pc = "onehot"
    /\ u_vocabulary \in Vocabularies
    /\ u_token \in UnitTokens
    /\ u_embedding = Unbound /\ u_s = Unbound /\ u_out = Unbound

\* embedding = onehot(vocabulary, token)
UnitOnehot ==
    /\ u_pc = "onehot"
    /\ u_embedding' = Bound(onehot(u_vocabulary, u_token))
    /\ u_pc' = "construct"
    /\ UNCHANGED << u_vocabulary, u_token, u_s, u_out >>
    /\ UNCHANGED progVars

\* model = Unigram(len(vocabulary))
UnitConstruct ==
    /\ u_pc = "construct"
    /\ u_s' = Bound(UnigramInit(Len(u_vocabulary)))
    /\ u_pc' = "forward"
    /\ UNCHANGED << u_vocabulary, u_token, u_embedding, u_out >>
    /\ UNCHANGED progVars

\* model(embedding)
UnitForward ==
    /\ u_pc = "forward"
    /\ u_out' = Bound(forward(u_s[1], u_embedding[1]))
    /\ u_pc' = "done"
    /\ UNCHANGED << u_vocabulary, u_token, u_embedding, u_s >>
    /\ UNCHANGED progVars

UnitNext == UnitOnehot \/ UnitConstruct \/ UnitForward

UnitSpec == UnitInit /\ [][UnitNext]_vars

(***************************************************************************)
(* Properties.                                                             *)
(***************************************************************************)
\* the entry of a one-hot column that holds the 1, read off the vocabulary:
\* the row of the token, or the last row for a token the vocabulary lacks
HotRow(vocab, token) ==
    IF \E r \in 1..Len(vocab) : vocab[r] = token
    THEN CHOOSE r \in 1..Len(vocab) : vocab[r] = token
    ELSE Len(vocab)

Member(vocab, token) == \E r \in 1..Len(vocab) : vocab[r] = token

\* C1: for a vocabulary of distinct symbols and a token that is one of them,
\* onehot returns a vector of length V with 1 at the token's vocabulary
\* index and 0 at every other entry.
C1_OnehotOfMember ==
    (u_embedding # Unbound /\ Member(u_vocabulary, u_token)) =>
        /\ Len(u_embedding[1]) = Len(u_vocabulary)
        /\ \A r \in 1..Len(u_vocabulary) :
               u_embedding[1][r]
                 = << IF u_vocabulary[r] = u_token THEN 1 ELSE 0 >>

C1_Witness ==
    /\ u_embedding # Unbound
    /\ Len(u_vocabulary) = MaxVocab
    /\ u_vocabulary[2] = u_token

\* C2: for a token absent from the vocabulary, onehot raises no error and
\* returns a vector of length V whose only nonzero entry is a 1 at the last
\* vocabulary position.
C2_OnehotOfAbsent ==
    (u_pc # "onehot" /\ ~Member(u_vocabulary, u_token)) =>
        /\ u_embedding # Unbound
        /\ Len(u_embedding[1]) = Len(u_vocabulary)
        /\ \A r \in 1..Len(u_vocabulary) :
               u_embedding[1][r]
                 = << IF r = Len(u_vocabulary) THEN 1 ELSE 0 >>

C2_Witness ==
    /\ u_embedding # Unbound
    /\ Len(u_vocabulary) = MaxVocab
    /\ u_token = "!"
    /\ u_vocabulary[1] = None

\* C3: every iteration runs forward pass, loss = negated log-likelihood,
\* gradient, exactly one optimizer step, gradient reset, record, in this
\* order: the gradient accumulator is zero at the start of every iteration and
\* the step sees only that iteration's gradient, the forward pass reads the
\* parameters the previous step wrote, and the loss recorded for iteration i
\* is the loss of the parameters before that iteration's step.
C3_IterationOrder ==
    /\ pc = "forward" =>
           /\ grad = Vector([v \in 1..V |-> 0], V)
           /\ optimizer.step = i[1]
           /\ Len(s_history) = i[1]
    /\ pc \in { "loss", "backward", "step" } =>
           /\ s_read = Bound(s)
           /\ optimizer.step = i[1]
           /\ optimizer.step >= 1 =>
                  s_read[1] = AdamStep(s_history[i[1]], optimizer)
           /\ p_pred[1] = LogLikelihood(x, Distribution(s))
    /\ pc \in { "backward", "step" } => loss[1] = FNeg(p_pred[1])
    /\ pc = "step" => grad = Gradient(s, x)
    /\ pc \in { "zero_grad", "record" } =>
           /\ optimizer.step = i[1] + 1
           /\ s_history[i[1] + 1] = s_read[1]
           /\ loss[1] = FNeg(LogLikelihood(x, Distribution(s_read[1])))
    /\ pc = "record" => grad = Vector([v \in 1..V |-> 0], V)
    /\ pc \in { "for", "stats", "graph1", "graph2", "graph3", "done" } =>
           /\ Len(list_items) = optimizer.step
           /\ Len(s_history) = optimizer.step
           /\ \A k \in 1..Len(list_items) :
                  /\ list_loss[k] = k - 1
                  /\ list_items[k]
                       = FNeg(LogLikelihood(x, Distribution(s_history[k])))

C3_Witness ==
    /\ pc = "for"
    /\ Len(list_items) = MaxIterations
    /\ s # s_history[Len(s_history)]
    /\ list_items[1] # list_items[2]

IsPrefix(a, b) == Len(a) <= Len(b) /\ \A k \in 1..Len(a) : a[k] = b[k]

AfterLoop == pc \in { "stats", "graph1", "graph2", "graph3", "done",
                      "NameError" }

LoopPcs == { "for", "forward", "loss", "backward", "step", "zero_grad",
             "record" }

\* the statements the loop has yet to run, at most: 7 for each iteration not
\* started and the rest of the one that is running
LoopMeasure ==
    7 * (num_iterations - it)
      + (CASE pc = "forward" -> 6 [] pc = "loss" -> 5 [] pc = "backward" -> 4
           [] pc = "step" -> 3 [] pc = "zero_grad" -> 2 [] pc = "record" -> 1
           [] OTHER -> 0)

\* C4: the training loop terminates after exactly num_iterations iterations
\* whatever the losses are (every statement of the loop lowers a measure that
\* is never negative, and the loop is left only with all iterations run), the
\* loss history then holds one (iteration, loss) pair per iteration, appended
\* in order with the indices 0, 1, ..., num_iterations - 1, and no pair is
\* modified or removed afterwards.
C4_LoopTerminates ==
    /\ [](pc \in LoopPcs => LoopMeasure >= 0)
    /\ [][(pc \in LoopPcs /\ pc' \in LoopPcs)
            => LoopMeasure' < LoopMeasure]_vars
    /\ [](AfterLoop =>
              /\ it = num_iterations
              /\ optimizer.step = num_iterations
              /\ Len(list_items) = num_iterations
              /\ list_loss = Vector([k \in 1..num_iterations |-> k - 1],
                                    num_iterations))
    /\ [][/\ IsPrefix(list_loss, list_loss')
          /\ IsPrefix(list_items, list_items')
          /\ Len(list_loss') = Len(list_items')
          /\ Len(list_loss') <= Len(list_loss) + 1]_vars

C4_Witness ==
    /\ pc = "done"
    /\ num_iterations = MaxIterations
    /\ Len(list_loss) = MaxIterations

\* C5: at initialization, for every vocabulary size V, all V parameters equal
\* logit(1/V) and the distribution the forward pass induces is uniform: every
\* entry equals 1/V.
C5_UniformAtInit ==
    /\ u_s # Unbound =>
           /\ Len(u_s[1]) = Len(u_vocabulary)
           /\ \A v \in 1..Len(u_vocabulary) :
                  u_s[1][v]
                    = AsFloat32(logit(Reduce(1, Len(u_vocabulary))))
    /\ u_out # Unbound =>
           /\ Len(u_out[1][2]) = Len(u_vocabulary)
           /\ \A v \in 1..Len(u_vocabulary) :
                  u_out[1][2][v] = << 1, Len(u_vocabulary) >>

C5_Witness ==
    /\ u_out # Unbound
    /\ u_vocabulary = vocabulary
    /\ u_out[1][2][1] = << 1, 28 >>

\* C6: for a token sequence of length T the encoding matrix has V rows and T
\* columns, column t is the one-hot encoding of the t-th token, and every
\* column has exactly one nonzero entry, a 1, also for a character outside
\* the vocabulary.
C6_EncodingMatrix ==
    pc \notin { "load", "tokenize", "encode" } =>
        /\ Len(x) = V
        /\ \A r \in 1..V : Len(x[r]) = Len(tokens)
        /\ \A t \in 1..Len(tokens) :
               /\ \A r \in 1..V :
                      << x[r][t] >> = onehot(vocabulary, tokens[t])[r]
               /\ Cardinality({ r \in 1..V : x[r][t] # 0 }) = 1
               /\ x[HotRow(vocabulary, tokens[t])][t] = 1

C6_Witness ==
    /\ pc = "model"
    /\ Len(tokens) = MaxLen
    /\ tokens[1] = "!"
    /\ tokens[MaxLen] = "a"

\* C7: the empirical frequency of each vocabulary symbol is the number of
\* corpus tokens encoded to it divided by the token count T, every token is
\* counted once (one outside the vocabulary in the last slot) and the entries
\* sum to 1; for the corpus "aab " it is 1/2 at 'a', 1/4 at 'b', 1/4 at ' '
\* and 0 elsewhere.
C7_EmpiricalFrequencies ==
    true_p # Unbound =>
        LET T == Len(tokens)
            Count(v) ==
                Cardinality({ t \in 1..T :
                                HotRow(vocabulary, tokens[t]) = v })
        IN  /\ Len(true_p[1]) = V
            /\ \A v \in 1..V : true_p[1][v] = Reduce(Count(v), T)
            /\ SumTo([v \in 1..V |->
                         true_p[1][v][1] * (T \div true_p[1][v][2])], V) = T
            /\ raw = ExampleCorpus =>
                   \A v \in 1..V :
                       true_p[1][v] =
                           CASE vocabulary[v] = "a" -> << 1, 2 >>
                             [] vocabulary[v] = "b" -> << 1, 4 >>
                             [] vocabulary[v] = " " -> << 1, 4 >>
                             [] OTHER -> << 0, 1 >>

C7_Witness ==
    /\ true_p # Unbound
    /\ raw = ExampleCorpus
    /\ true_p[1][1] = << 1, 2 >>

\* C8: for any corpus, the loss recorded at iteration 0 is greater than or
\* equal to the minimal loss reporting computes, also when some vocabulary
\* symbol never occurs in the corpus.
C8_FirstLossAboveMinimum ==
    (min # Unbound /\ list_items # << >>) => FGeq(list_items[1], min[1])

\* C9: with an iteration count of 0 the routine performs no optimizer step,
\* leaves the parameters as initialized, and reporting has the model's
\* distribution, which is uniform: 1/28 for every symbol.
C9_ZeroIterationsUniform ==
    (num_iterations = 0 /\ AfterLoop) =>
        /\ optimizer.step = 0
        /\ s = UnigramInit(V)
        /\ pc # "NameError"
        /\ pc \in { "graph3", "done" } =>
               /\ graph2 # Unbound
               /\ \A v \in 1..V : graph2[1].learned[v] = << 1, 28 >>

\* C10: with N >= 1 iterations the learned distribution that reporting draws
\* and subtracts from the empirical frequencies is the one the forward pass
\* of the last iteration returned: it is induced by the parameters before the
\* N-th optimizer step and belongs to the last recorded loss.
C10_ReportedDistribution ==
    /\ graph2 # Unbound =>
           /\ num_iterations >= 1
           /\ Len(s_history) = num_iterations
           /\ graph2[1].learned = Distribution(s_history[num_iterations])
           /\ list_items[num_iterations]
                = FNeg(LogLikelihood(x, graph2[1].learned))
    /\ graph3 # Unbound =>
           graph3[1] = Differences(true_p[1],
                                   Distribution(s_history[num_iterations]))

C10_Witness ==
    /\ pc = "done"
    /\ graph3 # Unbound
    /\ graph2[1].learned # Distribution(s)
    /\ list_items[num_iterations]
         # FNeg(LogLikelihood(x, Distribution(s)))

=============================================================================
